---------------------------- MODULE Spec2Model ----------------------------
(***************************************************************************)
(* Model of data_funcs.py: date parsing, binarising, per-day aggregation   *)
(* and moving-average smoothing of e-mail interaction logs.                *)
(*                                                                         *)
(* Python strings are sequences of one-character strings, so slicing       *)
(* (date[:-4], str.slice(0, 10)) and parsing are computed character by     *)
(* character.  Floating-point numbers are exact rationals [num, den] in    *)
(* lowest terms.  A pandas column is a Series [dtype, values]; a DataFrame *)
(* is a function from column names to Series.                              *)
(***************************************************************************)
EXTENDS Integers, Sequences, FiniteSets, TLC

VARIABLES
    date,        \* the date string handed to date_to_datetime
    data_array,  \* the sequence handed to moving_average / binarise
    data,        \* the caller's DataFrame object (shared by reference)
    pc,          \* position of the running call
    call,        \* the last call: function name and scalar arguments
    caught,      \* date_to_datetime: the first strptime raised ValueError
    ret,         \* value returned, or the exception raised, by the last call
    frame,       \* the callee's local DataFrame when the call ended
    daily,       \* the per-day means handed to moving_average
    figure       \* what plt.plot_date was given and plt.show displayed

vars == <<date, data_array, data, pc, call, caught, ret, frame, daily, figure>>

\* Results of a call: a returned value, a raised exception, or nothing yet.
None == [none |-> TRUE]
ValueError == [exception |-> "ValueError"]
Returned(v) == [value |-> v]
IsRaised(r) == "exception" \in DOMAIN r
IsReturned(r) == "value" \in DOMAIN r

(***************************************************************************)
(* Bounds of the model.                                                    *)
(***************************************************************************)
MaxLen == 5
MaxValue == 1
MaxWindow == 6
MaxRows == 2
MaxAggWindow == 2
MaxCalls == 2

(***************************************************************************)
(* Characters and string literals.                                         *)
(***************************************************************************)
DigitChars == <<"0", "1", "2", "3", "4", "5", "6", "7", "8", "9">>

IsDigit(c) == \E k \in 1..10 : DigitChars[k] = c

DigitVal(c) == (CHOOSE k \in 1..10 : DigitChars[k] = c) - 1

IsSpace(c) == c \in {" ", "\t"}

At(s, i) == IF i >= 1 /\ i <= Len(s) THEN s[i] ELSE ""

\* Python slice s[:n] for n >= 0 and s[:-n] for a negative bound.
SliceTo(s, n) == IF n <= 0 THEN <<>> ELSE SubSeq(s, 1, IF n < Len(s) THEN n ELSE Len(s))

SliceDropLast(s, n) == SliceTo(s, Len(s) - n)

(***************************************************************************)
(* datetime.datetime.strptime, as CPython's _strptime computes it: the     *)
(* format becomes a regular expression (%Y = \d\d\d\d, %m = 1[0-2]|0[1-9]| *)
(* [1-9], %d = 3[01]|[12]\d|0[1-9]|[1-9]| [1-9], %H = 2[0-3]|[01]\d|\d,    *)
(* %M = [0-5]\d|\d, %S = 6[01]|[0-5]\d|\d, blank = \s+), matched from the  *)
(* start; text left over, a day outside its month, year 0 and second > 59  *)
(* raise ValueError.                                                       *)
(***************************************************************************)
TimestampFormat == <<"%Y", "-", "%m", "-", "%d", " ", "%H", ":", "%M", ":", "%S">>
DateFormat == <<"%Y", "-", "%m", "-", "%d">>

\* Number of characters the directive consumes at position i (0: no match).
DirectiveLen(d, s, i) ==
    LET c1 == At(s, i)
        c2 == At(s, i + 1)
        two == IsDigit(c1) /\ IsDigit(c2)
    IN  CASE d = "%Y" ->
               IF \A k \in 0..3 : IsDigit(At(s, i + k)) THEN 4 ELSE 0
          [] d = "%m" ->
               IF two /\ ((c1 = "1" /\ DigitVal(c2) <= 2) \/ (c1 = "0" /\ c2 # "0")) THEN 2
               ELSE IF IsDigit(c1) /\ c1 # "0" THEN 1 ELSE 0
          [] d = "%d" ->
               IF two /\ (   (c1 = "3" /\ DigitVal(c2) <= 1)
                          \/ c1 \in {"1", "2"}
                          \/ (c1 = "0" /\ c2 # "0")) THEN 2
               ELSE IF IsDigit(c1) /\ c1 # "0" THEN 1
               ELSE IF c1 = " " /\ IsDigit(c2) /\ c2 # "0" THEN 2 ELSE 0
          [] d = "%H" ->
               IF two /\ ((c1 = "2" /\ DigitVal(c2) <= 3) \/ c1 \in {"0", "1"}) THEN 2
               ELSE IF IsDigit(c1) THEN 1 ELSE 0
          [] d = "%M" ->
               IF two /\ DigitVal(c1) <= 5 THEN 2
               ELSE IF IsDigit(c1) THEN 1 ELSE 0
          [] d = "%S" ->
               IF two /\ ((c1 = "6" /\ DigitVal(c2) <= 1) \/ DigitVal(c1) <= 5) THEN 2
               ELSE IF IsDigit(c1) THEN 1 ELSE 0
          [] d = " " ->
               IF IsSpace(c1)
               THEN (CHOOSE n \in 1..Len(s) :
                        /\ \A k \in 0..(n - 1) : IsSpace(At(s, i + k))
                        /\ ~IsSpace(At(s, i + n)))
               ELSE 0
          [] OTHER -> IF c1 = d THEN 1 ELSE 0

\* int() of the n characters at position i (a leading blank is skipped).
RECURSIVE IntOf(_, _, _)
IntOf(s, i, n) ==
    IF n = 0 THEN 0
    ELSE IF IsDigit(s[i + n - 1])
         THEN 10 * IntOf(s, i, n - 1) + DigitVal(s[i + n - 1])
         ELSE IntOf(s, i, n - 1)

\* Python's defaults for the fields a format does not mention.
StrptimeDefaults ==
    [year |-> 1900, month |-> 1, day |-> 1, hour |-> 0, minute |-> 0, second |-> 0]

FieldOf(d) ==
    CASE d = "%Y" -> "year" [] d = "%m" -> "month" [] d = "%d" -> "day"
      [] d = "%H" -> "hour" [] d = "%M" -> "minute" [] d = "%S" -> "second"
      [] OTHER -> "literal"

\* Match directives k.. of the format at position i; the fields found, or ValueError.
RECURSIVE re_match(_, _, _, _, _)
re_match(format, k, s, i, found) ==
    IF k > Len(format)
    THEN IF i = Len(s) + 1 THEN found ELSE ValueError   \* unconverted data remains
    ELSE LET n == DirectiveLen(format[k], s, i)
             f == FieldOf(format[k])
         IN  IF n = 0 THEN ValueError
             ELSE re_match(format, k + 1, s, i + n,
                           IF f = "literal" THEN found
                           ELSE [found EXCEPT ![f] = IntOf(s, i, n)])

IsLeap(y) == (y % 4 = 0 /\ y % 100 # 0) \/ y % 400 = 0

DaysInMonth(y, m) ==
    IF m = 2 THEN (IF IsLeap(y) THEN 29 ELSE 28)
    ELSE IF m \in {4, 6, 9, 11} THEN 30 ELSE 31

strptime(date_string, format) ==
    LET found == re_match(format, 1, date_string, 1, StrptimeDefaults)
    IN  IF found = ValueError THEN ValueError
        ELSE IF \/ found.year < 1
                \/ found.day > DaysInMonth(found.year, found.month)
                \/ found.second > 59
             THEN ValueError
             ELSE found

\* Line 31: the string without its last four characters.
DropMillisOffByOne(s) == SliceDropLast(s, 3)

DropMillis(s) == SliceDropLast(s, 4)

(***************************************************************************)
(* date_to_datetime: the try and the except clause.                        *)
(***************************************************************************)
Try ==
    /\ pc = "try"
    /\ LET first == strptime(DropMillis(date), TimestampFormat)
       IN  IF first # ValueError
           THEN /\ ret' = Returned(first)
                /\ pc' = "returned"
                /\ caught' = FALSE
           ELSE /\ ret' = ret
                /\ pc' = "except"
                /\ caught' = TRUE
    /\ call' = [fn |-> "date_to_datetime"]
    /\ UNCHANGED <<date, data_array, data, frame, daily, figure>>

Except ==
    /\ pc = "except"
    /\ LET second == strptime(date, DateFormat)
       IN  /\ ret' = IF second = ValueError THEN ValueError ELSE Returned(second)
           /\ pc' = IF second = ValueError THEN "raised" ELSE "returned"
    /\ UNCHANGED <<date, data_array, data, call, caught, frame, daily, figure>>

\* The whole function, as one value.
date_to_datetime(d) ==
    LET first == strptime(DropMillis(d), TimestampFormat)
    IN  IF first # ValueError THEN first ELSE strptime(d, DateFormat)

(***************************************************************************)
(* Date strings handed to date_to_datetime: the two accepted forms, built  *)
(* from their fields, and strings in neither form.                         *)
(***************************************************************************)
Pad2(n) == <<DigitChars[(n \div 10) + 1], DigitChars[(n % 10) + 1]>>
Pad4(n) == Pad2(n \div 100) \o Pad2(n % 100)

FormatDay(y, m, d) == Pad4(y) \o <<"-">> \o Pad2(m) \o <<"-">> \o Pad2(d)
FormatTime(h, m, s) == Pad2(h) \o <<":">> \o Pad2(m) \o <<":">> \o Pad2(s)

DayStrings ==
    {FormatDay(f[1], f[2], f[3]) :
        f \in {g \in {2020, 2021} \X {1, 2, 12} \X {1, 29, 31} :
                  g[3] <= DaysInMonth(g[1], g[2])}}

TimeStrings == {FormatTime(f[1], f[2], f[3]) : f \in {0, 23} \X {5, 59} \X {0, 59}}

MilliStrings == {<<".", "0", "0", "0">>, <<".", "1", "2", "3">>, <<".", "9", "9", "9">>}

TimestampStrings ==
    {f[1] \o <<" ">> \o f[2] \o f[3] : f \in DayStrings \X TimeStrings \X MilliStrings}

\* Tails that are not a dot and three digits, and junk after a date.
BadTails ==
    {<<>>, <<"a", "b", "c", "d">>, <<".", "1", "2">>, <<".", "1", "2", "3", "4">>,
     <<" ", "U", "T", "C">>, <<"0", ".", "1", "2">>}

OtherStrings ==
    {f[1] \o <<" ">> \o FormatTime(10, 15, 30) \o f[2] :
        f \in {FormatDay(2021, 3, 4), FormatDay(2021, 2, 30)} \X BadTails}
    \cup {FormatDay(2021, 3, 4) \o t : t \in BadTails \ {<<>>}}
    \cup {FormatDay(2021, 3, 4) \o <<"T">> \o FormatTime(10, 15, 30) \o <<".", "1", "2", "3">>,
          FormatDay(2021, 3, 4) \o <<" ">> \o FormatTime(10, 15, 60) \o <<".", "0", "0", "0">>,
          FormatDay(2021, 3, 4) \o <<" ">> \o FormatTime(24, 0, 0) \o <<".", "0", "0", "0">>,
          FormatDay(2021, 3, 4) \o <<" ", " ">> \o FormatTime(10, 15, 30) \o <<".", "0", "0", "0">>,
          FormatDay(2021, 2, 30), FormatDay(2021, 13, 1), FormatDay(0, 1, 1),
          <<"2", "0", "2", "1", "-", "3", "-", "4">>,
          <<"2", "0", "2", "1", "-", "3", "-", "4", " ", "1", ":", "5", ":", "3", ".", "0", "0", "0">>,
          <<"2", "1", "-", "0", "3", "-", "0", "4">>,
          <<"0", "4", "/", "0", "3", "/", "2", "0", "2", "1">>,
          <<"a", "b", "c">>, <<>>}

DateInputs == DayStrings \cup TimestampStrings \cup OtherStrings

\* The accepted forms of the docstring: YYYY-MM-DD and YYYY-MM-DD HH:MM:SS.mmm.
DigitsAt(s, ps) == \A p \in ps : IsDigit(At(s, p))

IsDateForm(s) ==
    /\ Len(s) = 10
    /\ DigitsAt(s, {1, 2, 3, 4, 6, 7, 9, 10})
    /\ s[5] = "-" /\ s[8] = "-"
    /\ IntOf(s, 1, 4) >= 1
    /\ IntOf(s, 6, 2) \in 1..12
    /\ IntOf(s, 9, 2) \in 1..DaysInMonth(IntOf(s, 1, 4), IntOf(s, 6, 2))

IsTimestampForm(s) ==
    /\ Len(s) = 23
    /\ IsDateForm(SubSeq(s, 1, 10))
    /\ s[11] = " "
    /\ DigitsAt(s, {12, 13, 15, 16, 18, 19, 21, 22, 23})
    /\ s[14] = ":" /\ s[17] = ":" /\ s[20] = "."
    /\ IntOf(s, 12, 2) <= 23 /\ IntOf(s, 15, 2) <= 59 /\ IntOf(s, 18, 2) <= 59

InitParse ==
    /\ date \in DateInputs
    /\ pc = "try"
    /\ call = None
    /\ caught = FALSE
    /\ ret = None
    /\ data_array = <<>>
    /\ data = None
    /\ frame = None
    /\ daily = None
    /\ figure = None

NextParse == Try \/ Except

SpecParse == InitParse /\ [][NextParse]_vars

\* The date-time with the fields that stand at the fixed positions of the form.
FieldsAt(s, withTime) ==
    [year |-> IntOf(s, 1, 4), month |-> IntOf(s, 6, 2), day |-> IntOf(s, 9, 2),
     hour |-> IF withTime THEN IntOf(s, 12, 2) ELSE 0,
     minute |-> IF withTime THEN IntOf(s, 15, 2) ELSE 0,
     second |-> IF withTime THEN IntOf(s, 18, 2) ELSE 0]

\* C3: a valid YYYY-MM-DD HH:MM:SS.mmm string is parsed by the first attempt
\* into the date-time with its year, month, day, hour, minute and second,
\* whatever the millisecond digits; for a valid YYYY-MM-DD string the first
\* attempt fails, and the fallback returns its year, month, day at 00:00:00.
C3_ParsesBothForms ==
    /\ (IsTimestampForm(date) /\ pc # "try") =>
           /\ pc = "returned"
           /\ ~caught
           /\ ret = Returned(FieldsAt(date, TRUE))
    /\ (IsDateForm(date) /\ pc # "try") =>
           /\ caught
           /\ pc \in {"except", "returned"}
           /\ (pc = "returned" => ret = Returned(FieldsAt(date, FALSE)))

C3_Witness ==
    /\ pc = "returned"
    /\ IsDateForm(date)
    /\ caught
    /\ ret = Returned([year |-> 2020, month |-> 2, day |-> 29,
                       hour |-> 0, minute |-> 0, second |-> 0])

\* C4: a string in neither accepted form never yields a date-time: the call
\* ends with the parse error.
C4_RejectsOtherStrings ==
    (~IsDateForm(date) /\ ~IsTimestampForm(date) /\ pc \in {"returned", "raised"})
        => (pc = "raised" /\ IsRaised(ret))

(***************************************************************************)
(* Numbers: exact rationals in lowest terms with a positive denominator.   *)
(***************************************************************************)
RECURSIVE GCD(_, _)
GCD(a, b) == IF b = 0 THEN a ELSE GCD(b, a % b)

Abs(n) == IF n < 0 THEN -n ELSE n

Rat(n, d) ==
    LET g == GCD(Abs(n), d)
    IN  [num |-> n \div g, den |-> d \div g]

RatAdd(x, y) == Rat(x.num * y.den + y.num * x.den, x.den * y.den)
RatMul(x, y) == Rat(x.num * y.num, x.den * y.den)
RatLeq(x, y) == x.num * y.den <= y.num * x.den
Zero == Rat(0, 1)
One == Rat(1, 1)

(***************************************************************************)
(* np.convolve(a, v, mode="same"): the operands are swapped when v is the  *)
(* longer one; the result has the length of the longer operand and is the  *)
(* centre of the full convolution, starting (len(shorter) - 1) // 2 in.    *)
(***************************************************************************)
\* full[t] = sum over m of long[m] * short[t - m], indices from 0.
RECURSIVE FullAt(_, _, _, _)
FullAt(long, short, t, m) ==
    IF m >= Len(long) THEN Zero
    ELSE LET rest == FullAt(long, short, t, m + 1)
         IN  IF t - m >= 0 /\ t - m < Len(short)
             THEN RatAdd(RatMul(long[m + 1], short[t - m + 1]), rest)
             ELSE rest

convolve_same(a, v) ==
    LET long == IF Len(v) > Len(a) THEN v ELSE a
        short == IF Len(v) > Len(a) THEN a ELSE v
        start == (Len(short) - 1) \div 2
    IN  IF Len(long) = 0 \/ Len(short) = 0 THEN ValueError
        ELSE Returned([k \in 1..Len(long) |-> FullAt(long, short, k - 1 + start, 0)])

\* np.ones((window,)) / window
KernelNotDivided(window) == [k \in 1..window |-> One]

Kernel(window) == [k \in 1..window |-> Rat(1, window)]

\* Line 47.
moving_average(array, w) == convolve_same(array, Kernel(w))

MovingAverage ==
    /\ pc = "start"
    /\ \E w \in 1..MaxWindow :
          /\ call' = [fn |-> "moving_average", window |-> w]
          /\ ret' = moving_average(data_array, w)
    /\ pc' = IF IsRaised(ret') THEN "raised" ELSE "returned"
    /\ UNCHANGED <<date, data_array, data, caught, frame, daily, figure>>

RECURSIVE SeqsUpTo(_, _)
SeqsUpTo(S, n) ==
    IF n = 0 THEN {<<>>}
    ELSE LET shorter == SeqsUpTo(S, n - 1)
         IN  shorter \cup {Append(q, x) : q \in {r \in shorter : Len(r) = n - 1}, x \in S}

InitSmooth ==
    /\ data_array \in {q \in SeqsUpTo({Rat(n, 1) : n \in 0..MaxValue}, MaxLen) : Len(q) > 0}
    /\ pc = "start"
    /\ call = None
    /\ caught = FALSE
    /\ ret = None
    /\ date = <<>>
    /\ data = None
    /\ frame = None
    /\ daily = None
    /\ figure = None

NextSmooth == MovingAverage

SpecSmooth == InitSmooth /\ [][NextSmooth]_vars

\* The inputs the window centred on position i covers, outside 1..n counted as 0.
Padded(a, j) == IF j >= 1 /\ j <= Len(a) THEN a[j] ELSE Zero

RECURSIVE WindowSum(_, _, _)
WindowSum(a, first, count) ==
    IF count = 0 THEN Zero
    ELSE RatAdd(Padded(a, first), WindowSum(a, first + 1, count - 1))

RECURSIVE MaxOf(_, _)
MaxOf(a, n) == IF n = 1 THEN a[1]
               ELSE LET m == MaxOf(a, n - 1) IN IF RatLeq(m, a[n]) THEN a[n] ELSE m

\* C1: moving_average returns a sequence as long as its input, for every
\* window, a window larger than the input included.
C1_LengthPreserved ==
    (pc = "returned" /\ call.fn = "moving_average")
        => Len(ret.value) = Len(data_array)

\* C8: for 1 <= w <= n, output i is 1/w times the sum of the w consecutive
\* inputs of the window centred on i (i - w \div 2 .. i - w \div 2 + w - 1), with
\* zero padding; it never exceeds the largest input; w = 1 is the identity;
\* [0,0,1,0,0] with w = 3 has 1/3 at the centre.
C8_CentredZeroPaddedMean ==
    (pc = "returned" /\ call.fn = "moving_average" /\ call.window <= Len(data_array)) =>
        LET w == call.window
            out == ret.value
        IN  /\ Len(out) = Len(data_array)
            /\ \A i \in 1..Len(data_array) :
                  /\ out[i] = RatMul(Rat(1, w), WindowSum(data_array, i - (w \div 2), w))
                  /\ RatLeq(out[i], MaxOf(data_array, Len(data_array)))
            /\ (w = 1 => out = data_array)
            /\ (w = 3 /\ data_array = <<Zero, Zero, One, Zero, Zero>> => out[3] = Rat(1, 3))

C8_Witness ==
    /\ pc = "returned"
    /\ data_array = <<Zero, Zero, One, Zero, Zero>>
    /\ call.fn = "moving_average" /\ call.window = 3
    /\ ret.value = <<Zero, Rat(1, 3), Rat(1, 3), Rat(1, 3), Zero>>

(***************************************************************************)
(* pandas: Series, DataFrame, column names and the interaction types.      *)
(***************************************************************************)
ColDate == <<"d", "a", "t", "e">>
ColStatus == <<"s", "t", "a", "t", "u", "s">>
ColDay == <<"d", "a", "y">>

Opened == <<"O", "p", "e", "n", "e", "d">>
Error == <<"E", "r", "r", "o", "r">>
Clicked == <<"C", "l", "i", "c", "k", "e", "d">>
Unsubscribed == <<"U", "n", "s", "u", "b", "s", "c", "r", "i", "b", "e", "d">>

InteractionTypes == {Opened, Error, Clicked, Unsubscribed}

Series(dtype, values) == [dtype |-> dtype, values |-> values]

NRows(dataframe) == Len(dataframe[ColStatus].values)

\* x == value in Python: a string cell equals a string value when the
\* characters agree; a number never equals a string.
binarise_casefold(array, value) ==
    LET lower(c) == CASE c = "O" -> "o" [] c = "E" -> "e" [] c = "C" -> "c"
                      [] c = "U" -> "u" [] OTHER -> c
        fold(x) == [k \in 1..Len(x) |-> lower(x[k])]
    IN  Series("int64",
               [i \in 1..Len(array.values) |->
                   IF array.dtype = "object" /\ fold(array.values[i]) = fold(value)
                   THEN 1 ELSE 0])

\* Line 63.
binarise(array, value) ==
    Series("int64",
           [i \in 1..Len(array.values) |->
               IF array.dtype = "object" /\ array.values[i] = value THEN 1 ELSE 0])

\* Lines 84-85: dataframe[value] = ... assigns the column named value.
binarise_df(dataframe, value, column) ==
    [c \in DOMAIN dataframe \cup {value} |->
        IF c = value THEN binarise(dataframe[column], value) ELSE dataframe[c]]

\* The year and month only.
add_day_month(dataframe) ==
    [c \in DOMAIN dataframe \cup {ColDay} |->
        IF c = ColDay
        THEN Series("object",
                    [i \in 1..Len(dataframe[ColDate].values) |->
                        SliceTo(dataframe[ColDate].values[i], 7)])
        ELSE dataframe[c]]

\* Lines 97-98: the first ten characters of each date string.
add_day(dataframe) ==
    [c \in DOMAIN dataframe \cup {ColDay} |->
        IF c = ColDay
        THEN Series("object",
                    [i \in 1..Len(dataframe[ColDate].values) |->
                        SliceTo(dataframe[ColDate].values[i], 10)])
        ELSE dataframe[c]]

\* Python compares strings character by character, by code point.
Alphabet ==
    <<"\t", " ", "-", ".", "/", "0", "1", "2", "3", "4", "5", "6", "7", "8", "9", ":",
      "a", "b", "e", "g", "r">>

CharCode(c) == CHOOSE k \in 1..Len(Alphabet) : Alphabet[k] = c

RECURSIVE StrLeqFrom(_, _, _)
StrLeqFrom(a, b, k) ==
    IF k > Len(a) THEN TRUE
    ELSE IF k > Len(b) THEN FALSE
    ELSE IF a[k] = b[k] THEN StrLeqFrom(a, b, k + 1)
    ELSE CharCode(a[k]) < CharCode(b[k])

StrLeq(a, b) == StrLeqFrom(a, b, 1)

\* sort_values(by=...): the default quicksort is not stable, so any row order
\* that is ascending in the key can result.
SortOrders(dataframe, by) ==
    LET n == Len(dataframe[by].values)
        key == dataframe[by].values
    IN  {p \in [1..n -> 1..n] :
            /\ \A i, j \in 1..n : i # j => p[i] # p[j]
            /\ \A i \in 1..(n - 1) : StrLeq(key[p[i]], key[p[i + 1]])}

take(dataframe, order) ==
    [c \in DOMAIN dataframe |->
        Series(dataframe[c].dtype,
               [i \in 1..Len(order) |-> dataframe[c].values[order[i]]])]

RECURSIVE SortedKeys(_)
SortedKeys(S) ==
    IF S = {} THEN <<>>
    ELSE LET least == CHOOSE x \in S : \A y \in S : StrLeq(x, y)
         IN  <<least>> \o SortedKeys(S \ {least})

Values(series) == {series.values[i] : i \in 1..Len(series.values)}

RECURSIVE SumWhere(_, _, _, _)
SumWhere(keys, values, key, i) ==
    IF i > Len(keys) THEN 0
    ELSE (IF keys[i] = key THEN values[i] ELSE 0) + SumWhere(keys, values, key, i + 1)

\* groupby(by, as_index=False)[column].mean()[column]: one mean per distinct
\* key, the keys ascending.
groupby_mean(dataframe, by, column) ==
    LET keys == SortedKeys(Values(dataframe[by]))
        ones == [i \in 1..Len(dataframe[by].values) |-> 1]
    IN  Series("float64",
               [k \in 1..Len(keys) |->
                   Rat(SumWhere(dataframe[by].values, dataframe[column].values, keys[k], 1),
                       SumWhere(dataframe[by].values, ones, keys[k], 1))])

(***************************************************************************)
(* matplotlib.dates.date2num: days since 1970-01-01, a fraction for the    *)
(* time of day; sorted(): ascending.                                       *)
(***************************************************************************)
RECURSIVE DaysBeforeMonth(_, _)
DaysBeforeMonth(y, m) ==
    IF m = 1 THEN 0 ELSE DaysBeforeMonth(y, m - 1) + DaysInMonth(y, m - 1)

toordinal(dt) ==
    LET y == dt.year - 1
    IN  y * 365 + (y \div 4) - (y \div 100) + (y \div 400)
          + DaysBeforeMonth(dt.year, dt.month) + dt.day

date2num(dt) ==
    Rat((toordinal(dt) - toordinal([year |-> 1970, month |-> 1, day |-> 1])) * 86400
           + dt.hour * 3600 + dt.minute * 60 + dt.second,
        86400)

RECURSIVE Insert(_, _)
Insert(sortedSeq, x) ==
    IF sortedSeq = <<>> THEN <<x>>
    ELSE IF RatLeq(x, Head(sortedSeq)) THEN <<x>> \o sortedSeq
    ELSE <<Head(sortedSeq)>> \o Insert(Tail(sortedSeq), x)

RECURSIVE sorted(_)
sorted(list) == IF list = <<>> THEN <<>> ELSE Insert(sorted(Tail(list)), Head(list))

\* Lines 123 and 166: every distinct day is parsed; one ValueError ends the call.
time_axis_skipping(dataframe) ==
    LET days == SortedKeys({d \in Values(dataframe[ColDay]) :
                               date_to_datetime(d) # ValueError})
    IN  Returned(sorted([k \in 1..Len(days) |-> date2num(date_to_datetime(days[k]))]))

time_axis(dataframe) ==
    LET days == SortedKeys(Values(dataframe[ColDay]))
    IN  IF \E k \in 1..Len(days) : date_to_datetime(days[k]) = ValueError
        THEN ValueError
        ELSE Returned(sorted([k \in 1..Len(days) |-> date2num(date_to_datetime(days[k]))]))

\* Lines 118-121 and 151: binarise, group by day, mean, smooth.
interaction_means(dataframe, interaction_type) ==
    groupby_mean(dataframe, ColDay, interaction_type)

(***************************************************************************)
(* get_interactions, get_times and plot_percentage_by_date.  add_day adds  *)
(* the day column to the caller's object; sort_values returns a new frame, *)
(* which binarise_df then extends.                                         *)
(***************************************************************************)
GetInteractions ==
    /\ pc = "start"
    /\ \E interaction_type \in InteractionTypes, window \in 1..MaxAggWindow,
          order \in SortOrders(add_day(data), ColDay) :
          LET local == binarise_df(take(add_day(data), order), interaction_type, ColStatus)
              means == interaction_means(local, interaction_type)
          IN  /\ call' = [fn |-> "get_interactions",
                          interaction_type |-> interaction_type, window |-> window]
              /\ frame' = local
              /\ daily' = means
              /\ ret' = moving_average(means.values, window)
    /\ data' = add_day(data)
    /\ pc' = IF IsRaised(ret') THEN "raised" ELSE "returned"
    /\ UNCHANGED <<date, data_array, caught, figure>>

GetTimes ==
    /\ pc = "start"
    /\ \E order \in SortOrders(add_day(data), ColDay) :
          LET local == take(add_day(data), order)
          IN  /\ frame' = local
              /\ ret' = time_axis(local)
    /\ call' = [fn |-> "get_times"]
    /\ data' = add_day(data)
    /\ pc' = IF IsRaised(ret') THEN "raised" ELSE "returned"
    /\ UNCHANGED <<date, data_array, caught, daily, figure>>

\* The fourth line binarising the first type again.
PlotOrderCopyPaste == <<Opened, Error, Clicked, Opened>>

\* Lines 118-121: the four types, in the order of the calls.
PlotOrder == <<Opened, Error, Clicked, Unsubscribed>>

\* The frame after binarise_df was applied for each type of the sequence in turn.
RECURSIVE binarise_all(_, _)
binarise_all(dataframe, types) ==
    IF types = <<>> THEN dataframe
    ELSE binarise_all(binarise_df(dataframe, Head(types), ColStatus), Tail(types))

PlotPercentageByDate ==
    /\ pc = "start"
    /\ \E window \in 1..MaxAggWindow, order \in SortOrders(add_day(data), ColDay) :
          LET local == binarise_all(take(add_day(data), order), PlotOrder)
              \* each groupby reads the frame as it is after its own binarise_df
              means == [k \in 1..4 |->
                          interaction_means(
                              binarise_all(take(add_day(data), order), SubSeq(PlotOrder, 1, k)),
                              PlotOrder[k])]
              lines == [k \in 1..4 |-> moving_average(means[k].values, window)]
              time == time_axis(local)
          IN  /\ call' = [fn |-> "plot_percentage_by_date", window |-> window]
              /\ frame' = local
              /\ daily' = means
              /\ IF IsRaised(time)
                 THEN /\ ret' = time
                      /\ figure' = figure
                 ELSE IF \E k \in 1..4 : Len(lines[k].value) # Len(time.value)
                 THEN /\ ret' = ValueError    \* plot_date: x and y differ in length
                      /\ figure' = figure
                 ELSE /\ ret' = Returned(None)
                      /\ figure' = [time |-> time.value,
                                    lines |-> [k \in 1..4 |-> lines[k].value],
                                    shown |-> TRUE]
    /\ data' = add_day(data)
    /\ pc' = IF IsRaised(ret') THEN "raised" ELSE "returned"
    /\ UNCHANGED <<date, data_array, caught>>

Table(rows) ==
    [c \in {ColDate, ColStatus} |->
        Series("object", [i \in 1..Len(rows) |-> IF c = ColDate THEN rows[i][1] ELSE rows[i][2]])]

Day1 == FormatDay(2021, 1, 1)
Day2 == FormatDay(2021, 1, 2)

Stamp1 == Day1 \o <<" ">> \o FormatTime(10, 15, 30) \o <<".", "1", "2", "3">>

\* Date strings in the two accepted forms, on two days.
TableDates == {Stamp1, Day2}

\* The end-to-end scenario: four rows on 2021-01-01.
ExampleTable ==
    Table(<<<<Day1, Opened>>, <<Day1, Opened>>, <<Day1, Error>>, <<Day1, Clicked>>>>)

\* Five rows on two days, the later day first.
SampleTable ==
    Table(<<<<Day2, Opened>>, <<Day1, Opened>>, <<Day2, Error>>,
            <<Stamp1, Clicked>>, <<Stamp1, Unsubscribed>>>>)

InitTables(dates, statuses) ==
    /\ data \in {Table(rows) : rows \in {q \in SeqsUpTo(dates \X statuses, MaxRows) : Len(q) > 0}}
                  \cup {ExampleTable, SampleTable}
    /\ pc = "start"
    /\ call = None
    /\ caught = FALSE
    /\ ret = None
    /\ date = <<>>
    /\ data_array = <<>>
    /\ frame = None
    /\ daily = None
    /\ figure = None

InitAgg == InitTables(TableDates, InteractionTypes)

NextAgg == GetInteractions \/ GetTimes \/ PlotPercentageByDate

SpecAgg == InitAgg /\ [][NextAgg]_vars

DayKey(dateString) == SliceTo(dateString, 10)

RowDays(dataframe) == {DayKey(d) : d \in Values(dataframe[ColDate])}

RowsOn(dataframe, d) ==
    {i \in 1..NRows(dataframe) : DayKey(dataframe[ColDate].values[i]) = d}

\* The rate of a status on a day, counted on the rows of the table.
RateOn(dataframe, d, status) ==
    Rat(Cardinality({i \in RowsOn(dataframe, d) : dataframe[ColStatus].values[i] = status}),
        Cardinality(RowsOn(dataframe, d)))

\* The position of a day among the days of the table, ascending.
RankOf(dataframe, d) == Cardinality({e \in RowDays(dataframe) : StrLeq(e, d)})

AllAccepted(dataframe) ==
    \A d \in Values(dataframe[ColDate]) : IsDateForm(d) \/ IsTimestampForm(d)

\* C2: get_interactions returns one value per distinct day, in ascending day
\* order, as long as the time axis of get_times; on the four-row table of
\* 2021-01-01 (Opened, Opened, Error, Clicked) the series are the single
\* rates 1/2, 1/4, 1/4 and 0.
C2_OneValuePerDay ==
    (pc = "returned" /\ call.fn = "get_interactions" /\ AllAccepted(data)) =>
        /\ Len(ret.value) = Cardinality(RowDays(data))
        /\ Len(ret.value) = Len(time_axis(add_day(data)).value)
        /\ (data = add_day(ExampleTable) =>
               ret.value = <<RateOn(ExampleTable, Day1, call.interaction_type)>>)

\* C5: the per-day aggregation has one entry per distinct day, ascending by
\* day, each the share of the day's rows whose status is the target, in [0,1],
\* whatever the order of the rows.
C5_DailyMeans ==
    (pc = "returned" /\ call.fn = "get_interactions") =>
        /\ Len(daily.values) = Cardinality(RowDays(data))
        /\ \A d \in RowDays(data) :
              LET rate == daily.values[RankOf(data, d)]
              IN  /\ rate = RateOn(data, d, call.interaction_type)
                  /\ RatLeq(Zero, rate) /\ RatLeq(rate, One)

C5_Witness ==
    /\ pc = "returned"
    /\ call.fn = "get_interactions" /\ call.interaction_type = Opened
    /\ data = add_day(SampleTable)
    /\ daily.values = <<Rat(1, 3), Rat(1, 2)>>

RECURSIVE RatSum(_, _)
RatSum(f, n) == IF n = 0 THEN Zero ELSE RatAdd(f[n], RatSum(f, n - 1))

CallOrders ==
    {o \in [1..4 -> InteractionTypes] : \A i, j \in 1..4 : i # j => o[i] # o[j]}

\* C10: in plot_percentage_by_date, with every status one of the four types,
\* every row of the frame has exactly one of the four indicators equal to 1
\* after the four binarise_df calls, in whatever order they run, and the four
\* unsmoothed rates of every day sum to 1.
C10_IndicatorsPartition ==
    (/\ pc # "start"
     /\ call.fn = "plot_percentage_by_date"
     /\ Values(data[ColStatus]) \subseteq InteractionTypes) =>
        /\ \A i \in 1..NRows(frame) :
              Cardinality({t \in InteractionTypes \cap DOMAIN frame :
                              frame[t].values[i] = 1}) = 1
        /\ \A k \in 1..Cardinality(RowDays(data)) :
              RatSum([t \in 1..4 |-> daily[t].values[k]], 4) = One
        /\ \A o \in CallOrders :
              binarise_all([c \in {ColDate, ColStatus, ColDay} |-> frame[c]], o) = frame

C10_Witness ==
    /\ pc = "returned"
    /\ call.fn = "plot_percentage_by_date"
    /\ data = add_day(SampleTable)
    /\ daily[1].values = <<Rat(1, 3), Rat(1, 2)>>
    /\ daily[4].values = <<Rat(1, 3), Zero>>
    /\ figure.shown

(***************************************************************************)
(* Tables with date strings in neither accepted form.                      *)
(***************************************************************************)
\* A valid date, a date followed by junk (its day key parses), a date of
\* another notation and a month without a day (their day keys do not parse).
ErrDates ==
    {Day1,
     Day2 \o <<"a", "b", "e", "r">>,
     <<"0", "1", "/", "0", "2", "/", "2", "0", "2", "1">>,
     <<"2", "0", "2", "1", "-", "0", "1">>}

InitErr == InitTables(ErrDates, {Opened, Error})

SpecErr == InitErr /\ [][NextAgg]_vars

BadDay(dataframe) == \E d \in RowDays(dataframe) : date_to_datetime(d) = ValueError

\* C9 as stated: a row whose date string is in neither accepted form makes
\* every aggregation call end with the parse error, with nothing returned
\* and nothing plotted.
C9_AnyBadDateAborts ==
    (pc # "start" /\ ~AllAccepted(data)) =>
        (pc = "raised" /\ ret = ValueError /\ figure = None)

\* C9 amended: when date_to_datetime rejects the day key (the first ten
\* characters) of some row, get_times and plot_percentage_by_date end with
\* the parse error: no time axis is returned and nothing is plotted;
\* get_interactions parses no date and returns its series.
C9_BadDayKeyAborts ==
    /\ (pc # "start" /\ call.fn \in {"get_times", "plot_percentage_by_date"} /\ BadDay(data))
           => (pc = "raised" /\ ret = ValueError /\ figure = None)
    /\ (pc # "start" /\ call.fn = "get_interactions")
           => (pc = "returned" /\ IsReturned(ret))

C9_Witness ==
    /\ pc = "raised"
    /\ call.fn = "plot_percentage_by_date"
    /\ BadDay(data) /\ ~AllAccepted(data)
    /\ NRows(data) = 2
    /\ daily # None
    /\ figure = None

(***************************************************************************)
(* binarise on a sequence of strings.                                      *)
(***************************************************************************)
OpenedLower == <<"o", "p", "e", "n", "e", "d">>

Binarise ==
    /\ pc = "start"
    /\ \E value \in {Opened, OpenedLower, Error, Clicked} :
          /\ call' = [fn |-> "binarise", value |-> value]
          /\ ret' = Returned(binarise(data_array, value).values)
    /\ pc' = "returned"
    /\ UNCHANGED <<date, data_array, data, caught, frame, daily, figure>>

InitBin ==
    /\ data_array \in {Series("object", q) : q \in SeqsUpTo({Opened, OpenedLower, Error}, MaxLen)}
    /\ pc = "start"
    /\ call = None
    /\ caught = FALSE
    /\ ret = None
    /\ date = <<>>
    /\ data = None
    /\ frame = None
    /\ daily = None
    /\ figure = None

NextBin == Binarise

SpecBin == InitBin /\ [][NextBin]_vars

\* C6: binarise returns a sequence as long as its input, of 0s and 1s, with
\* 1 at position i exactly when input i equals the target, case included.
C6_BinariseIndicator ==
    (pc = "returned" /\ call.fn = "binarise") =>
        /\ Len(ret.value) = Len(data_array.values)
        /\ \A i \in 1..Len(ret.value) :
              /\ ret.value[i] \in {0, 1}
              /\ ret.value[i] = 1 <=> data_array.values[i] = call.value

C6_Witness ==
    /\ pc = "returned"
    /\ call.fn = "binarise" /\ call.value = Opened
    /\ data_array.values = <<Opened, OpenedLower, Opened>>
    /\ ret.value = <<1, 0, 1>>

(***************************************************************************)
(* binarise_df called on a table that has its day column, several times.   *)
(***************************************************************************)
BinariseDf ==
    /\ pc \in {"start", "returned"}
    /\ IF call = None THEN TRUE ELSE call.n < MaxCalls
    /\ \E value \in {Opened, Error, ColStatus}, column \in DOMAIN data :
          /\ call' = [fn |-> "binarise_df", value |-> value, column |-> column,
                      n |-> IF call = None THEN 1 ELSE call.n + 1]
          /\ data' = binarise_df(data, value, column)
    /\ ret' = Returned(data')
    /\ pc' = "returned"
    /\ UNCHANGED <<date, data_array, caught, frame, daily, figure>>

InitDf ==
    /\ data \in {add_day(Table(rows)) :
                    rows \in {q \in SeqsUpTo(TableDates \X {Opened, Error}, MaxRows) : Len(q) > 0}}
    /\ pc = "start"
    /\ call = None
    /\ caught = FALSE
    /\ ret = None
    /\ date = <<>>
    /\ data_array = <<>>
    /\ frame = None
    /\ daily = None
    /\ figure = None

NextDf == BinariseDf

SpecDf == InitDf /\ [][NextDf]_vars

\* C7: binarise_df adds the column named after the value, holding
\* binarise(table[column], value), and leaves the row count, the row order and
\* every column that existed before the call unchanged.
C7_ColumnsKept ==
    [][/\ DOMAIN data' = DOMAIN data \cup {call'.value}
       /\ data'[call'.value] = binarise(data[call'.column], call'.value)
       /\ \A c \in DOMAIN data : data'[c] = data[c]]_vars

=============================================================================
